---- MODULE Spec2Model ----
(***************************************************************************)
(* Interclub league service (InterclubService): the round-robin fixture    *)
(* scheduler generateAndPersistMatchSchedule and the standings computation *)
(* getGroupStandings, modelled statement by statement.                     *)
(*                                                                         *)
(* Team, season and user identifiers are opaque strings in the program;    *)
(* here they are small naturals.  Dates are day numbers.                   *)
(***************************************************************************)
EXTENDS Integers, Sequences, FiniteSets, TLC

\* ---------------------------------------------------------------- bounds
MaxTeams == 5          \* most team ids handed to the scheduler
MaxPermuted == 3       \* team lists up to this length come in every order
MaxWeekCount == 6      \* largest week count a caller might ask for

MaxRoster == 3         \* most teams registered in the group
MaxEncounters == 2     \* most completed encounters in the store's reply
MaxFormReply == 6      \* longest reply replayed to fill a team's form
MaxCalls == 4          \* most service calls made on the encounter
MaxAutoPlayers == 6    \* most players of the user auto-generation reads

\* ------------------------------------------------------ program constants
weeks == 4             \* const weeks = 4
NumMatches == 5        \* individual matches of an encounter (MATCH_TYPES)
WinPoints == 3         \* points += 3
FormLength == 5        \* form.slice(-5)

SeasonIds == {1, 2}
GroupNumbers == {1, 2}
DateKinds == {"daily", "weekly", "wrapped"}

\* ------------------------------------------------------------- variables
VARIABLES
  schedPc,           \* position inside generateAndPersistMatchSchedule
  teamIds,           \* argument teamIds
  seasonId,          \* argument seasonId
  groupNumber,       \* argument groupNumber
  dateKind,          \* which computeMatchDate the caller passed
  raw,               \* const raw
  weekBuckets,       \* const weekBuckets
  weekSchedule,      \* const weekSchedule
  matchday,          \* let matchday
  fixturesToInsert,  \* const fixturesToInsert
  dateCalls,         \* log of the calls made to computeMatchDate
  oob,               \* the week search ran past the last bucket
  storeError,        \* which store write failed: "none", "insert", "update"
  schedResult,       \* what the call gave its caller
  dbMatches,         \* rows of interclub_matches written by the call
  dbWeekSchedule     \* interclub_seasons.week_schedule written by the call

schedVars == <<schedPc, teamIds, seasonId, groupNumber, dateKind, raw,
               weekBuckets, weekSchedule, matchday, fixturesToInsert,
               dateCalls, oob, storeError, schedResult, dbMatches,
               dbWeekSchedule>>

VARIABLES
  registrations,     \* interclub_registrations rows of the season's group
  standPc,           \* position inside getGroupStandings
  standings,         \* const standings: Record<string, GroupStanding>
  keyOrder,          \* insertion order of the keys of standings
  encounter,         \* the row forEach visited last
  processed,         \* how many rows of the reply forEach has visited
  sortedStandings,   \* what getGroupStandings returned
  standResult        \* "none", "computed", or "failed" (the [] of an error path)

VARIABLES
  reply,             \* the store's reply to the encounters select, when fixed
  callNo,            \* 1 during the first getGroupStandings call, then 2
  firstResult,       \* what the first call returned
  firstStatus        \* standResult of the first call

replayVars == <<reply, callNo, firstResult, firstStatus>>

standVars == <<registrations, standPc, standings, keyOrder, encounter,
               processed, sortedStandings, standResult, replayVars>>

VARIABLES
  matchRow,          \* the interclub_matches row of the encounter
  groups,            \* the standings stored in the season's groups JSON
  deadlinePassed,    \* now > match_date - 2h
  calls,             \* service calls started so far
  pc,                \* where each in-flight call stands
  arg,               \* the call's kind, userId and submission
  snap,              \* the encounter row as the call's select returned it
  computed,          \* what getGroupStandings returned to the call
  ret                \* what the slot's last call returned

encVars == <<matchRow, groups, deadlinePassed, calls, pc, arg, snap, computed, ret>>

VARIABLES
  sameGroup,         \* whether encounters A and B belong to the same group
  seasonEncounters,  \* the interclub_matches rows of encounters A and B
  seasonGroups,      \* interclub_seasons.groups: the standings of each group
  seasonPc,          \* where each executeEncounter call stands
  computedFor,       \* what getGroupStandings returned to the call
  groupsRead,        \* the groups JSON as the call's select returned it
  storeFailed        \* whether any store operation has failed so far

seasonVars == <<sameGroup, seasonEncounters, seasonGroups, seasonPc,
                computedFor, groupsRead, storeFailed>>

VARIABLES
  playersTable,      \* the rows of the players table, best rank first
  submission,        \* the lineup handed to submitLineup
  lineupPc,          \* where the call stands
  lineupRet,         \* what the call returned
  storedLineup       \* the lineup written to the encounter, if any

lineupVars == <<playersTable, submission, lineupPc, lineupRet, storedLineup>>

VARIABLES
  uniqueIndex,       \* whether the table refuses a second row per user and season
  regOpen,           \* season 'registration_open' and deadline not passed
  inserted,          \* the calls whose registration row is in the table
  deducted,          \* the calls whose resource cost was taken
  balance,           \* the user's coins, shuttlecocks and meals
  regPc,             \* where each registerForSeason call stands
  regOk,             \* whether the call's request names five own players
  regRet,            \* what the call returned
  regFault           \* whether a store or service operation has failed

regVars == <<uniqueIndex, regOpen, inserted, deducted, balance, regPc, regOk,
             regRet, regFault>>

restVars == <<seasonVars, lineupVars, regVars>>

vars == <<schedVars, standVars, encVars, restVars>>

\* ------------------------------------------------------------- helpers
Range(s) == {s[k] : k \in 1..Len(s)}

\* sequences of distinct elements of S, of length 0..n
RECURSIVE InjSeqs(_, _)
InjSeqs(S, n) ==
  IF n = 0 THEN {<<>>}
  ELSE LET shorter == InjSeqs(S, n - 1)
       IN  shorter \cup
           UNION {{Append(s, x) : x \in S \ Range(s)} :
                    s \in {t \in shorter : Len(t) = n - 1}}

\* the team lists handed to the scheduler: every order of up to MaxPermuted
\* ids, and longer lists ascending, descending and rotated
TeamIdLists ==
  InjSeqs(1..MaxPermuted, MaxPermuted)
    \cup {[k \in 1..n |-> k] : n \in 0..MaxTeams}
    \cup {[k \in 1..n |-> n + 1 - k] : n \in 0..MaxTeams}
    \cup {[k \in 1..n |-> (k % n) + 1] : n \in 1..MaxTeams}

\* the caller's date function: (matchday) => date
ComputeMatchDate(kind, md) ==
  CASE kind = "daily"   -> 100 + md
    [] kind = "weekly"  -> 100 + 7 * md
    [] kind = "wrapped" -> (3 * md) % 7

\* ---------------------------------------------- step 1: raw fixtures
\* the two pushes of the inner loop body
PairLegsOneLeg(ids, i, j) ==
  << [home |-> ids[i], away |-> ids[j]] >>

PairLegsAwayFirst(ids, i, j) ==
  << [home |-> ids[j], away |-> ids[i]],
     [home |-> ids[i], away |-> ids[j]] >>

PairLegs(ids, i, j) ==
  << [home |-> ids[i], away |-> ids[j]],
     [home |-> ids[j], away |-> ids[i]] >>

\* for (i...) for (j = i + 1 ...) with 1-based positions
RECURSIVE RawFrom(_, _, _)
RawFrom(ids, i, j) ==
  IF i > Len(ids) THEN <<>>
  ELSE IF j > Len(ids) THEN RawFrom(ids, i + 1, i + 2)
  ELSE PairLegs(ids, i, j) \o RawFrom(ids, i, j + 1)

BuildRawFromSelf(ids) == RawFrom(ids, 1, 1)

BuildRaw(ids) == RawFrom(ids, 1, 2)

\* ---------------------------------------------- step 2: week buckets
WeekBucketsNoExtras(totalMD) ==
  [w \in 1..weeks |-> totalMD \div weeks]

WeekBucketsExtrasLast(totalMD) ==
  [w \in 1..weeks |->
     (totalMD \div weeks) + (IF w > weeks - (totalMD % weeks) THEN 1 ELSE 0)]

\* perWeekBase + (w < extras ? 1 : 0), w 0-based in the source
WeekBuckets(totalMD) ==
  LET perWeekBase == totalMD \div weeks
      extras == totalMD % weeks
  IN  [w \in 1..weeks |-> perWeekBase + (IF (w - 1) < extras THEN 1 ELSE 0)]

\* ---------------------------------------------- step 3: week_schedule
InitWeekSchedule(buckets) ==
  [w \in 1..Len(buckets) |-> [week |-> w, matchdays |-> <<>>]]

\* ---------------------------------------------- step 4: week search
\* while (cum + weekBuckets[wk] < matchday) cum += weekBuckets[wk++];
\* wk is 1-based here.  Reading past the array gives undefined, the sum is
\* NaN, the comparison is false and the loop stops with wk past the end.
RECURSIVE FindWeekInclusive(_, _, _, _)
FindWeekInclusive(buckets, md, cum, wk) ==
  IF wk > Len(buckets) THEN wk
  ELSE IF cum + buckets[wk] <= md
       THEN FindWeekInclusive(buckets, md, cum + buckets[wk], wk + 1)
       ELSE wk

RECURSIVE FindWeek(_, _, _, _)
FindWeek(buckets, md, cum, wk) ==
  IF wk > Len(buckets) THEN wk
  ELSE IF cum + buckets[wk] < md
       THEN FindWeek(buckets, md, cum + buckets[wk], wk + 1)
       ELSE wk

MakeFixtureStale(sid, wk, leg, date, grp) ==
  [season_id |-> sid, week_number |-> wk, home_team_id |-> leg.home,
   away_team_id |-> leg.away, match_date |-> date, status |-> "completed",
   group_number |-> grp]

MakeFixture(sid, wk, leg, date, grp) ==
  [season_id |-> sid, week_number |-> wk, home_team_id |-> leg.home,
   away_team_id |-> leg.away, match_date |-> date, status |-> "scheduled",
   group_number |-> grp]

\* ------------------------------------------------------------ scheduler
SchedInit ==
  /\ schedPc = "idle"
  /\ teamIds = <<>>
  /\ seasonId = 1
  /\ groupNumber = 1
  /\ dateKind = "daily"
  /\ raw = <<>>
  /\ weekBuckets = <<>>
  /\ weekSchedule = <<>>
  /\ matchday = 1
  /\ fixturesToInsert = <<>>
  /\ dateCalls = <<>>
  /\ oob = FALSE
  /\ storeError = "none"
  /\ schedResult = "none"
  /\ dbMatches = <<>>
  /\ dbWeekSchedule = <<>>

\* entry of generateAndPersistMatchSchedule up to the fixture loop
GenerateCall ==
  /\ schedPc = "idle"
  /\ \E ids \in TeamIdLists, sid \in SeasonIds,
        grp \in GroupNumbers, kind \in DateKinds :
       /\ teamIds' = ids
       /\ seasonId' = sid
       /\ groupNumber' = grp
       /\ dateKind' = kind
       /\ raw' = BuildRaw(ids)
       /\ weekBuckets' = WeekBuckets(Len(BuildRaw(ids)))
       /\ weekSchedule' = InitWeekSchedule(WeekBuckets(Len(BuildRaw(ids))))
  /\ matchday' = 1
  /\ fixturesToInsert' = <<>>
  /\ schedPc' = "assign"
  /\ UNCHANGED <<dateCalls, oob, storeError, schedResult, dbMatches,
                 dbWeekSchedule>>
  /\ UNCHANGED standVars
  /\ UNCHANGED encVars
  /\ UNCHANGED restVars

\* one iteration of for (const { home, away } of raw), computeMatchDate returns
AssignFixture ==
  /\ schedPc = "assign"
  /\ matchday <= Len(raw)
  /\ LET wk == FindWeek(weekBuckets, matchday, 0, 1)
         date == ComputeMatchDate(dateKind, matchday)
     IN  IF wk > Len(weekSchedule)
         THEN \* weekSchedule[wk] is undefined: TypeError leaves the call
              /\ oob' = TRUE
              /\ schedResult' = "thrown"
              /\ schedPc' = "done"
              /\ UNCHANGED <<weekSchedule, fixturesToInsert, dateCalls,
                             matchday>>
         ELSE /\ weekSchedule' =
                   [weekSchedule EXCEPT ![wk].matchdays = Append(@, matchday)]
              /\ dateCalls' = Append(dateCalls, [arg |-> matchday, ret |-> date])
              /\ fixturesToInsert' =
                   Append(fixturesToInsert,
                          MakeFixture(seasonId, wk, raw[matchday], date,
                                      groupNumber))
              /\ matchday' = matchday + 1
              /\ UNCHANGED <<oob, schedResult, schedPc>>
  /\ UNCHANGED <<teamIds, seasonId, groupNumber, dateKind, raw, weekBuckets,
                 storeError, dbMatches, dbWeekSchedule>>
  /\ UNCHANGED standVars
  /\ UNCHANGED encVars
  /\ UNCHANGED restVars

\* one iteration in which the caller's computeMatchDate throws: nothing in
\* the method catches it
AssignFixtureDateThrows ==
  /\ schedPc = "assign"
  /\ matchday <= Len(raw)
  /\ LET wk == FindWeek(weekBuckets, matchday, 0, 1)
     IN  IF wk > Len(weekSchedule)
         THEN /\ oob' = TRUE
              /\ UNCHANGED <<weekSchedule, dateCalls>>
         ELSE /\ weekSchedule' =
                   [weekSchedule EXCEPT ![wk].matchdays = Append(@, matchday)]
              /\ dateCalls' = Append(dateCalls, [arg |-> matchday, ret |-> "throw"])
              /\ UNCHANGED oob
  /\ schedResult' = "thrown"
  /\ schedPc' = "done"
  /\ UNCHANGED <<teamIds, seasonId, groupNumber, dateKind, raw, weekBuckets,
                 matchday, fixturesToInsert, storeError, dbMatches,
                 dbWeekSchedule>>
  /\ UNCHANGED standVars
  /\ UNCHANGED encVars
  /\ UNCHANGED restVars

\* step 5: bulk insert into interclub_matches
InsertFixtures ==
  /\ schedPc = "assign"
  /\ matchday > Len(raw)
  /\ \E insertError \in BOOLEAN :
       IF insertError
       THEN /\ storeError' = "insert"
            /\ schedResult' = "error"
            /\ schedPc' = "done"
            /\ UNCHANGED dbMatches
       ELSE /\ dbMatches' = dbMatches \o fixturesToInsert
            /\ schedPc' = "update"
            /\ UNCHANGED <<storeError, schedResult>>
  /\ UNCHANGED <<teamIds, seasonId, groupNumber, dateKind, raw, weekBuckets,
                 weekSchedule, matchday, fixturesToInsert, dateCalls, oob,
                 dbWeekSchedule>>
  /\ UNCHANGED standVars
  /\ UNCHANGED encVars
  /\ UNCHANGED restVars

\* step 6: persist week_schedule on the season row
UpdateWeekSchedule ==
  /\ schedPc = "update"
  /\ \E updateError \in BOOLEAN :
       IF updateError
       THEN /\ storeError' = "update"
            /\ schedResult' = "error"
            /\ UNCHANGED dbWeekSchedule
       ELSE /\ dbWeekSchedule' = weekSchedule
            /\ schedResult' = "success"
            /\ UNCHANGED storeError
  /\ schedPc' = "done"
  /\ UNCHANGED <<teamIds, seasonId, groupNumber, dateKind, raw, weekBuckets,
                 weekSchedule, matchday, fixturesToInsert, dateCalls, oob,
                 dbMatches>>
  /\ UNCHANGED standVars
  /\ UNCHANGED encVars
  /\ UNCHANGED restVars

SchedNext ==
  \/ GenerateCall
  \/ AssignFixture
  \/ AssignFixtureDateThrows
  \/ InsertFixtures
  \/ UpdateWeekSchedule

\* ------------------------------------------------------------ standings
NoEncounter == [home_team_id |-> 0, away_team_id |-> 0, results |-> <<>>]

\* how many of its individual matches the home side wins in the stored
\* encounters: a whitewash and a one-match margin, either way
HomeWinCounts == {0, 2, 3, 5}

\* the result lists executeEncounter stores: NumMatches entries, each won by
\* 'home' or by 'away'
ResultLists ==
  {[i \in 1..NumMatches |->
      [winner |-> IF (3 * i) % NumMatches < h THEN "home" ELSE "away"]] :
     h \in HomeWinCounts}

\* the completed rows the store can hold for the group: fixtures of the
\* schedule (home # away), among them teams without a registration row
EncounterRows ==
  {row \in [home_team_id : 1..MaxRoster, away_team_id : 1..MaxRoster,
            results : ResultLists] : row.home_team_id # row.away_team_id}

\* the rosters of the group: the teams 1..n, ascending, descending and
\* rotated; the teams n+1..MaxRoster then have no registration row
RosterLists ==
  {[k \in 1..n |-> k] : n \in 0..MaxRoster}
    \cup {[k \in 1..n |-> n + 1 - k] : n \in 0..MaxRoster}
    \cup {[k \in 1..n |-> (k % n) + 1] : n \in 1..MaxRoster}

RegistrationRows(ids) ==
  [k \in 1..Len(ids) |-> [user_id |-> ids[k], team_name |-> 100 + ids[k]]]

NewStandingOnePoint(reg) ==
  [team_id |-> reg.user_id, team_name |-> reg.team_name, is_cpu |-> FALSE,
   position |-> 0, matches_played |-> 0, encounters_won |-> 0,
   encounters_lost |-> 0, individual_matches_won |-> 0,
   individual_matches_lost |-> 0, points |-> 1, form |-> <<>>]

NewStanding(reg) ==
  [team_id |-> reg.user_id, team_name |-> reg.team_name, is_cpu |-> FALSE,
   position |-> 0, matches_played |-> 0, encounters_won |-> 0,
   encounters_lost |-> 0, individual_matches_won |-> 0,
   individual_matches_lost |-> 0, points |-> 0, form |-> <<>>]

\* a variant that starts from the entries an earlier call left behind
RECURSIVE InitStandingsKeep(_, _)
InitStandingsKeep(regs, st) ==
  IF regs = <<>> THEN st
  ELSE LET reg == Head(regs)
           keys == DOMAIN st
       IN  InitStandingsKeep(Tail(regs),
             [t \in keys \cup {reg.user_id} |->
                IF t # reg.user_id THEN st[t]
                ELSE IF t \in DOMAIN standings THEN standings[t]
                     ELSE NewStanding(reg)])

\* registrations.forEach(reg => standings[reg.user_id] = {...})
RECURSIVE InitStandings(_, _)
InitStandings(regs, st) ==
  IF regs = <<>> THEN st
  ELSE LET reg == Head(regs)
           keys == DOMAIN st
       IN  InitStandings(Tail(regs),
             [t \in keys \cup {reg.user_id} |->
                IF t = reg.user_id THEN NewStanding(reg) ELSE st[t]])

\* Object.values order: user ids are uuid strings, none of them an array
\* index, so the keys come in the order they were first assigned
RECURSIVE InitKeyOrder(_, _)
InitKeyOrder(regs, order) ==
  IF regs = <<>> THEN order
  ELSE InitKeyOrder(Tail(regs),
         IF Head(regs).user_id \in Range(order) THEN order
         ELSE Append(order, Head(regs).user_id))

\* a variant that drops the first result of the list
RECURSIVE CountWinsSkipFirst(_, _, _)
CountWinsSkipFirst(results, homeWins, awayWins) ==
  IF Len(results) <= 1 THEN [homeWins |-> homeWins, awayWins |-> awayWins]
  ELSE IF results[Len(results)].winner = "home"
       THEN CountWinsSkipFirst(SubSeq(results, 1, Len(results) - 1),
                               homeWins + 1, awayWins)
       ELSE CountWinsSkipFirst(SubSeq(results, 1, Len(results) - 1),
                               homeWins, awayWins + 1)

\* results.forEach(result => winner === 'home' ? homeWins++ : awayWins++)
RECURSIVE CountWins(_, _, _)
CountWins(results, homeWins, awayWins) ==
  IF results = <<>> THEN [homeWins |-> homeWins, awayWins |-> awayWins]
  ELSE IF Head(results).winner = "home"
       THEN CountWins(Tail(results), homeWins + 1, awayWins)
       ELSE CountWins(Tail(results), homeWins, awayWins + 1)

BumpPlayed(st, team) ==
  IF team \in DOMAIN st
  THEN [st EXCEPT ![team].matches_played = @ + 1]
  ELSE st

UpdateSideOnePoint(st, team, myWins, theirWins) ==
  IF team \notin DOMAIN st THEN st
  ELSE LET e == [st[team] EXCEPT
                   !.individual_matches_won = @ + myWins,
                   !.individual_matches_lost = @ + theirWins]
       IN  [st EXCEPT ![team] =
              IF myWins > theirWins
              THEN [e EXCEPT !.encounters_won = @ + 1,
                             !.points = @ + 1,
                             !.form = Append(@, "W")]
              ELSE [e EXCEPT !.encounters_lost = @ + 1,
                             !.form = Append(@, "L")]]

\* the "Update statistics" block for one side of the encounter
UpdateSide(st, team, myWins, theirWins) ==
  IF team \notin DOMAIN st THEN st
  ELSE LET e == [st[team] EXCEPT
                   !.individual_matches_won = @ + myWins,
                   !.individual_matches_lost = @ + theirWins]
       IN  [st EXCEPT ![team] =
              IF myWins > theirWins
              THEN [e EXCEPT !.encounters_won = @ + 1,
                             !.points = @ + WinPoints,
                             !.form = Append(@, "W")]
              ELSE [e EXCEPT !.encounters_lost = @ + 1,
                             !.form = Append(@, "L")]]

\* the body of encounters.forEach
ApplyEncounter(st, enc) ==
  LET played == BumpPlayed(BumpPlayed(st, enc.home_team_id), enc.away_team_id)
      wins == CountWins(enc.results, 0, 0)
      afterHome == UpdateSide(played, enc.home_team_id,
                              wins.homeWins, wins.awayWins)
  IN  UpdateSide(afterHome, enc.away_team_id, wins.awayWins, wins.homeWins)

ComparePointsOnly(a, b) == b.points - a.points

\* the comparator handed to sort
Compare(a, b) ==
  IF b.points # a.points
  THEN b.points - a.points
  ELSE LET aDiff == a.individual_matches_won - a.individual_matches_lost
           bDiff == b.individual_matches_won - b.individual_matches_lost
       IN  bDiff - aDiff

\* Array.prototype.sort is stable: an element goes behind every element the
\* comparator does not place after it
RECURSIVE InsertSorted(_, _)
InsertSorted(s, x) ==
  IF s = <<>> THEN <<x>>
  ELSE IF Compare(Head(s), x) > 0
       THEN <<x>> \o s
       ELSE <<Head(s)>> \o InsertSorted(Tail(s), x)

RECURSIVE SortStandings(_, _)
SortStandings(todo, sorted) ==
  IF todo = <<>> THEN sorted
  ELSE SortStandings(Tail(todo), InsertSorted(sorted, Head(todo)))

LastNFirst(s, n) ==
  IF Len(s) <= n THEN s ELSE SubSeq(s, 1, n)

LastN(s, n) ==
  IF Len(s) <= n THEN s ELSE SubSeq(s, Len(s) - n + 1, Len(s))

AssignPositionsShared(sorted) ==
  [k \in 1..Len(sorted) |->
     [sorted[k] EXCEPT
        !.position = 1 + Cardinality({i \in 1..Len(sorted) :
                                        Compare(sorted[i], sorted[k]) < 0}),
        !.form = LastN(@, FormLength)]]

\* sortedStandings.forEach((standing, index) => ...), index 0-based
AssignPositions(sorted) ==
  [k \in 1..Len(sorted) |->
     [sorted[k] EXCEPT !.position = (k - 1) + 1,
                       !.form = LastN(@, FormLength)]]

StandIdle ==
  /\ standPc = "idle"
  /\ standings = <<>>
  /\ keyOrder = <<>>
  /\ encounter = NoEncounter
  /\ processed = 0
  /\ sortedStandings = <<>>
  /\ standResult = "none"

\* getGroupStandings: the select of the group's completed encounters
FetchEncounters ==
  /\ standPc = "idle"
  /\ \E error \in BOOLEAN :
       IF error
       THEN /\ standPc' = "done"
            /\ sortedStandings' = <<>>
            /\ standResult' = "failed"
       ELSE /\ standPc' = "fetchRegistrations"
            /\ UNCHANGED <<sortedStandings, standResult>>
  /\ UNCHANGED <<registrations, standings, keyOrder, encounter, processed>>
  /\ UNCHANGED replayVars
  /\ UNCHANGED schedVars
  /\ UNCHANGED encVars
  /\ UNCHANGED restVars

\* the select of the group's registrations, then the initialisation loop
FetchRegistrations ==
  /\ standPc = "fetchRegistrations"
  /\ \E regError \in BOOLEAN :
       IF regError
       THEN /\ standPc' = "done"
            /\ sortedStandings' = <<>>
            /\ standResult' = "failed"
            /\ UNCHANGED <<standings, keyOrder>>
       ELSE /\ standPc' = "process"
            /\ standings' = InitStandings(registrations, <<>>)
            /\ keyOrder' = InitKeyOrder(registrations, <<>>)
            /\ UNCHANGED <<sortedStandings, standResult>>
  /\ UNCHANGED <<registrations, encounter, processed>>
  /\ UNCHANGED replayVars
  /\ UNCHANGED schedVars
  /\ UNCHANGED encVars
  /\ UNCHANGED restVars

\* one iteration of encounters.forEach; the rows of the reply are revealed as
\* the loop visits them
ProcessEncounter ==
  /\ standPc = "process"
  /\ processed < MaxEncounters
  /\ \E enc \in EncounterRows :
       /\ encounter' = enc
       /\ standings' = ApplyEncounter(standings, enc)
  /\ processed' = processed + 1
  /\ UNCHANGED <<registrations, standPc, keyOrder, sortedStandings,
                 standResult>>
  /\ UNCHANGED replayVars
  /\ UNCHANGED schedVars
  /\ UNCHANGED encVars
  /\ UNCHANGED restVars

\* the reply is exhausted: sort, assign positions, return
SortAndReturn ==
  /\ standPc = "process"
  /\ sortedStandings' =
       AssignPositions(
         SortStandings([k \in 1..Len(keyOrder) |-> standings[keyOrder[k]]],
                       <<>>))
  /\ standResult' = "computed"
  /\ standPc' = "done"
  /\ UNCHANGED <<registrations, standings, keyOrder, encounter, processed>>
  /\ UNCHANGED replayVars
  /\ UNCHANGED schedVars
  /\ UNCHANGED encVars
  /\ UNCHANGED restVars

\* ------------------------------------------- standings over a fixed reply
ReplayIdle ==
  /\ reply = <<>>
  /\ callNo = 1
  /\ firstResult = <<>>
  /\ firstStatus = "none"

\* sequences over S of length 0..n
RECURSIVE SeqsUpTo(_, _)
SeqsUpTo(S, n) ==
  IF n = 0 THEN {<<>>}
  ELSE LET shorter == SeqsUpTo(S, n - 1)
       IN  shorter \cup {Append(q, x) : q \in {t \in shorter : Len(t) = n - 1},
                                        x \in S}

EncounterRow(h, a, homeWins) ==
  [home_team_id |-> h, away_team_id |-> a,
   results |-> [i \in 1..NumMatches |->
                  [winner |-> IF (3 * i) % NumMatches < homeWins
                              THEN "home" ELSE "away"]]]

\* short replies: encounters among teams 1, 2 and 3
ShortRows ==
  {EncounterRow(pair[1], pair[2], h) :
     pair \in {<<1, 2>>, <<2, 1>>, <<1, 3>>, <<3, 2>>}, h \in {2, 3, 5}}

\* long replies: team 1 plays every encounter, team 2 some of them
LongRows ==
  {EncounterRow(1, 2, 3), EncounterRow(2, 1, 3), EncounterRow(1, 3, 2)}

\* one iteration of encounters.forEach over the reply
ProcessReplyRow ==
  /\ standPc = "process"
  /\ processed < Len(reply)
  /\ encounter' = reply[processed + 1]
  /\ standings' = ApplyEncounter(standings, reply[processed + 1])
  /\ processed' = processed + 1
  /\ UNCHANGED <<registrations, standPc, keyOrder, sortedStandings,
                 standResult>>
  /\ UNCHANGED replayVars
  /\ UNCHANGED schedVars
  /\ UNCHANGED encVars
  /\ UNCHANGED restVars

\* forEach has visited every row of the reply
ReturnAfterReply ==
  /\ processed = Len(reply)
  /\ SortAndReturn

\* the caller calls getGroupStandings again; the locals of the finished call
\* are dead and the new call declares its own
CallAgain ==
  /\ standPc = "done"
  /\ callNo = 1
  /\ callNo' = 2
  /\ firstResult' = sortedStandings
  /\ firstStatus' = standResult
  /\ standPc' = "idle"
  /\ encounter' = NoEncounter
  /\ processed' = 0
  /\ sortedStandings' = <<>>
  /\ standResult' = "none"
  /\ UNCHANGED <<registrations, standings, keyOrder, reply>>
  /\ UNCHANGED schedVars
  /\ UNCHANGED encVars
  /\ UNCHANGED restVars

ReplayNext ==
  \/ FetchEncounters
  \/ FetchRegistrations
  \/ ProcessReplyRow
  \/ ReturnAfterReply
  \/ CallAgain

\* ------------------------------------------------- lineups and execution
Slots == {"p", "q"}                \* two calls can be in flight at once
HomeTeam == 1                      \* home_team_id of the encounter
AwayTeam == 2                      \* away_team_id of the encounter
Users == {HomeTeam, AwayTeam, 3}   \* user 3 manages neither team

NoLineup == 0                      \* home_lineup / away_lineup is null
NewRow ==
  [status |-> "scheduled", home_team_id |-> HomeTeam,
   away_team_id |-> AwayTeam, home_lineup |-> NoLineup,
   away_lineup |-> NoLineup, results |-> <<>>, winner_team_id |-> 0,
   final_score |-> <<>>]
NoArg == [kind |-> "none", user |-> 0, ok |-> TRUE]

EncIdle ==
  /\ matchRow = NewRow
  /\ groups = <<>>
  /\ deadlinePassed = FALSE
  /\ calls = 0
  /\ pc = [p \in Slots |-> "idle"]
  /\ arg = [p \in Slots |-> NoArg]
  /\ snap = [p \in Slots |-> NewRow]
  /\ computed = [p \in Slots |-> <<>>]
  /\ ret = [p \in Slots |-> "none"]

\* the call of slot p returns r; its locals die with it
Return(p, r) ==
  /\ pc' = [pc EXCEPT ![p] = "idle"]
  /\ ret' = [ret EXCEPT ![p] = r]
  /\ arg' = [arg EXCEPT ![p] = NoArg]
  /\ snap' = [snap EXCEPT ![p] = NewRow]
  /\ computed' = [computed EXCEPT ![p] = <<>>]

Goto(p, label) ==
  /\ pc' = [pc EXCEPT ![p] = label]
  /\ UNCHANGED <<ret, arg>>

\* a caller starts submitLineup(userId, submission)
StartSubmit(p) ==
  /\ pc[p] = "idle"
  /\ calls < MaxCalls
  /\ calls' = calls + 1
  /\ \E user \in Users, ok \in BOOLEAN :
       arg' = [arg EXCEPT ![p] = [kind |-> "submit", user |-> user, ok |-> ok]]
  /\ pc' = [pc EXCEPT ![p] = "validate"]
  /\ ret' = [ret EXCEPT ![p] = "none"]
  /\ UNCHANGED <<matchRow, groups, deadlinePassed, snap, computed>>
  /\ UNCHANGED <<schedVars, standVars>>
  /\ UNCHANGED restVars

\* a caller starts autoGenerateLineup(userId, encounterId)
StartAuto(p) ==
  /\ pc[p] = "idle"
  /\ calls < MaxCalls
  /\ calls' = calls + 1
  /\ \E user \in Users :
       arg' = [arg EXCEPT ![p] = [kind |-> "auto", user |-> user, ok |-> TRUE]]
  /\ pc' = [pc EXCEPT ![p] = "generate"]
  /\ ret' = [ret EXCEPT ![p] = "none"]
  /\ UNCHANGED <<matchRow, groups, deadlinePassed, snap, computed>>
  /\ UNCHANGED <<schedVars, standVars>>
  /\ UNCHANGED restVars

\* a caller starts executeEncounter(encounterId)
StartExecute(p) ==
  /\ pc[p] = "idle"
  /\ calls < MaxCalls
  /\ calls' = calls + 1
  /\ arg' = [arg EXCEPT ![p] = [kind |-> "execute", user |-> 0, ok |-> TRUE]]
  /\ pc' = [pc EXCEPT ![p] = "execRead"]
  /\ ret' = [ret EXCEPT ![p] = "none"]
  /\ UNCHANGED <<matchRow, groups, deadlinePassed, snap, computed>>
  /\ UNCHANGED <<schedVars, standVars>>
  /\ UNCHANGED restVars

\* a caller starts getGroupStandings(seasonId, groupNumber)
StartGetStandings(p) ==
  /\ pc[p] = "idle"
  /\ calls < MaxCalls
  /\ calls' = calls + 1
  /\ arg' = [arg EXCEPT ![p] = [kind |-> "standings", user |-> 0, ok |-> TRUE]]
  /\ pc' = [pc EXCEPT ![p] = "getStandings"]
  /\ ret' = [ret EXCEPT ![p] = "none"]
  /\ UNCHANGED <<matchRow, groups, deadlinePassed, snap, computed>>
  /\ UNCHANGED <<schedVars, standVars>>
  /\ UNCHANGED restVars

\* the clock passes two hours before match_date
PassDeadline ==
  /\ deadlinePassed = FALSE
  /\ deadlinePassed' = TRUE
  /\ UNCHANGED <<matchRow, groups, calls, pc, arg, snap, computed, ret>>
  /\ UNCHANGED <<schedVars, standVars>>
  /\ UNCHANGED restVars

\* autoGenerateLineup up to its call of submitLineup: the players select and
\* the two head-count checks
GenerateErrors ==
  {"Insufficient players for auto-generation",
   "Insufficient players by gender for auto-generation",
   "Failed to auto-generate lineup"}

AutoGenerate(p) ==
  /\ pc[p] = "generate"
  /\ \/ \E e \in GenerateErrors : Return(p, e)
     \/ /\ Goto(p, "validate")
        /\ UNCHANGED <<snap, computed>>
  /\ UNCHANGED <<matchRow, groups, deadlinePassed, calls>>
  /\ UNCHANGED <<schedVars, standVars>>
  /\ UNCHANGED restVars

\* a variant that lets any user through
ValidateLineupSubmissionAnyUser(enc, userId, ok, selectError, late) ==
  IF selectError THEN "Encounter not found"
  ELSE IF late THEN "Lineup submission deadline has passed"
  ELSE IF ~ok THEN "Invalid lineup"
  ELSE "valid"

\* validateLineupSubmission on the row as its select returns it
ValidateLineupSubmission(enc, userId, ok, selectError, late) ==
  IF selectError THEN "Encounter not found"
  ELSE IF enc.home_team_id # userId /\ enc.away_team_id # userId
  THEN "Not authorized to submit lineup for this encounter"
  ELSE IF late THEN "Lineup submission deadline has passed"
  ELSE IF ~ok THEN "Invalid lineup"
  ELSE "valid"

\* submitLineup: validateLineupSubmission, then validatePlayerUsageLimit
Validate(p) ==
  /\ pc[p] = "validate"
  /\ \E selectError \in BOOLEAN, usageOk \in BOOLEAN :
       LET v == ValidateLineupSubmission(matchRow, arg[p].user, arg[p].ok,
                                         selectError, deadlinePassed)
       IN  IF v # "valid" THEN Return(p, v)
           ELSE IF ~usageOk THEN Return(p, "Player usage limit exceeded")
           ELSE /\ Goto(p, "read")
                /\ UNCHANGED <<snap, computed>>
  /\ UNCHANGED <<matchRow, groups, deadlinePassed, calls>>
  /\ UNCHANGED <<schedVars, standVars>>
  /\ UNCHANGED restVars

\* submitLineup: the select of the encounter
SubmitRead(p) ==
  /\ pc[p] = "read"
  /\ \E encounterError \in BOOLEAN :
       IF encounterError THEN Return(p, "Encounter not found")
       ELSE /\ Goto(p, "update")
            /\ snap' = [snap EXCEPT ![p] = matchRow]
            /\ UNCHANGED computed
  /\ UNCHANGED <<matchRow, groups, deadlinePassed, calls>>
  /\ UNCHANGED <<schedVars, standVars>>
  /\ UNCHANGED restVars

LineupField(enc, userId) ==
  IF enc.home_team_id = userId THEN "home_lineup" ELSE "away_lineup"

CalculateEncounterStatus(enc, updatedField) ==
  LET hasHomeLineup ==
        enc.home_lineup # NoLineup \/ updatedField = "home_lineup"
      hasAwayLineup ==
        enc.away_lineup # NoLineup \/ updatedField = "away_lineup"
  IN  IF hasHomeLineup /\ hasAwayLineup THEN "ready" ELSE "lineup_pending"

\* submitLineup: buildLineupWithPlayerDetails, then the update of the row
SubmitUpdate(p) ==
  /\ pc[p] = "update"
  /\ \E outcome \in {"written", "updateError", "thrown"} :
       IF outcome = "written"
       THEN LET lineupField == LineupField(snap[p], arg[p].user)
            IN  /\ matchRow' = [matchRow EXCEPT
                             ![lineupField] = arg[p].user,
                             !.status = CalculateEncounterStatus(snap[p],
                                                                 lineupField)]
                /\ Return(p, "success")
       ELSE /\ Return(p, IF outcome = "thrown" THEN "Failed to submit lineup"
                         ELSE "update failed")
            /\ UNCHANGED matchRow
  /\ UNCHANGED <<groups, deadlinePassed, calls>>
  /\ UNCHANGED <<schedVars, standVars>>
  /\ UNCHANGED restVars

\* a variant that goes on whatever the status
ExecReadAnyStatus(p) ==
  /\ pc[p] = "execRead"
  /\ Goto(p, "execUpdate")
  /\ snap' = [snap EXCEPT ![p] = matchRow]
  /\ UNCHANGED <<matchRow, groups, deadlinePassed, calls, computed>>
  /\ UNCHANGED <<schedVars, standVars>>
  /\ UNCHANGED restVars

\* executeEncounter: the select of the encounter and the status check
ExecRead(p) ==
  /\ pc[p] = "execRead"
  /\ \E error \in BOOLEAN :
       IF error THEN Return(p, "Encounter not found")
       ELSE IF matchRow.status # "ready"
       THEN Return(p, "Encounter not ready for execution")
       ELSE /\ Goto(p, "execUpdate")
            /\ snap' = [snap EXCEPT ![p] = matchRow]
            /\ UNCHANGED computed
  /\ UNCHANGED <<matchRow, groups, deadlinePassed, calls>>
  /\ UNCHANGED <<schedVars, standVars>>
  /\ UNCHANGED restVars

\* the five individual matches as executeIndividualMatch decides them
MatchResults == {EncounterRow(HomeTeam, AwayTeam, h).results : h \in {2, 3}}

ExecutedRow(old, enc, matchResults) ==
  LET wins == CountWins(matchResults, 0, 0)
      encounterWinner ==
        IF wins.homeWins > wins.awayWins THEN "home" ELSE "away"
  IN  [old EXCEPT
         !.status = "completed",
         !.results = matchResults,
         !.winner_team_id = IF encounterWinner = "home"
                            THEN enc.home_team_id
                            ELSE enc.away_team_id,
         !.final_score = <<wins.homeWins, wins.awayWins>>]

\* executeEncounter: the matches, then the update of the row by its id
ExecUpdate(p) ==
  /\ pc[p] = "execUpdate"
  /\ \/ \E matchResults \in MatchResults :
          /\ matchRow' = ExecutedRow(matchRow, snap[p], matchResults)
          /\ Goto(p, "ugsCompute")
          /\ UNCHANGED <<snap, computed>>
     \/ \E e \in {"update failed", "Failed to execute encounter"} :
          /\ Return(p, e)
          /\ UNCHANGED matchRow
  /\ UNCHANGED <<groups, deadlinePassed, calls>>
  /\ UNCHANGED <<schedVars, standVars>>
  /\ UNCHANGED restVars

\* getGroupStandings over the rows of the store, when both selects succeed
CompletedRows(enc) ==
  IF enc.status = "completed"
  THEN <<[home_team_id |-> enc.home_team_id,
          away_team_id |-> enc.away_team_id,
          results |-> enc.results]>>
  ELSE <<>>

RECURSIVE ApplyAll(_, _)
ApplyAll(st, rows) ==
  IF rows = <<>> THEN st
  ELSE ApplyAll(ApplyEncounter(st, Head(rows)), Tail(rows))

GetGroupStandings(regs, rows) ==
  LET st == ApplyAll(InitStandings(regs, <<>>), rows)
      order == InitKeyOrder(regs, <<>>)
  IN  AssignPositions(
        SortStandings([k \in 1..Len(order) |-> st[order[k]]], <<>>))

GroupRegistrations == RegistrationRows(<<HomeTeam, AwayTeam>>)

\* a variant whose standings computation also stores what it computed
UgsComputeAndStore(p) ==
  /\ pc[p] = "ugsCompute"
  /\ computed' = [computed EXCEPT ![p] =
                    GetGroupStandings(GroupRegistrations, CompletedRows(matchRow))]
  /\ groups' = GetGroupStandings(GroupRegistrations, CompletedRows(matchRow))
  /\ Goto(p, "ugsWrite")
  /\ UNCHANGED <<matchRow, deadlinePassed, calls, snap>>
  /\ UNCHANGED <<schedVars, standVars>>
  /\ UNCHANGED restVars

\* updateGroupStandings: its call of getGroupStandings
UgsCompute(p) ==
  /\ pc[p] = "ugsCompute"
  /\ \E failed \in BOOLEAN :
       computed' = [computed EXCEPT ![p] =
                      IF failed THEN <<>>
                      ELSE GetGroupStandings(GroupRegistrations,
                                             CompletedRows(matchRow))]
  /\ Goto(p, "ugsWrite")
  /\ UNCHANGED <<matchRow, groups, deadlinePassed, calls, snap>>
  /\ UNCHANGED <<schedVars, standVars>>
  /\ UNCHANGED restVars

\* updateGroupStandings: the select of the season and the update of its
\* groups; executeEncounter then returns success whatever happened here
UgsWrite(p) ==
  /\ pc[p] = "ugsWrite"
  /\ \E outcome \in {"written", "seasonError", "thrown"} :
       IF outcome = "written"
       THEN groups' = computed[p]
       ELSE UNCHANGED groups
  /\ Return(p, "success")
  /\ UNCHANGED <<matchRow, deadlinePassed, calls>>
  /\ UNCHANGED <<schedVars, standVars>>
  /\ UNCHANGED restVars

\* a direct call of getGroupStandings
GetStandings(p) ==
  /\ pc[p] = "getStandings"
  /\ \E failed \in BOOLEAN :
       Return(p, IF failed THEN "failed" ELSE "computed")
  /\ UNCHANGED <<matchRow, groups, deadlinePassed, calls>>
  /\ UNCHANGED <<schedVars, standVars>>
  /\ UNCHANGED restVars

EncNext ==
  \/ PassDeadline
  \/ \E p \in Slots : StartSubmit(p)
  \/ \E p \in Slots : StartAuto(p)
  \/ \E p \in Slots : StartExecute(p)
  \/ \E p \in Slots : StartGetStandings(p)
  \/ \E p \in Slots : AutoGenerate(p)
  \/ \E p \in Slots : Validate(p)
  \/ \E p \in Slots : SubmitRead(p)
  \/ \E p \in Slots : SubmitUpdate(p)
  \/ \E p \in Slots : ExecRead(p)
  \/ \E p \in Slots : ExecUpdate(p)
  \/ \E p \in Slots : UgsCompute(p)
  \/ \E p \in Slots : UgsWrite(p)
  \/ \E p \in Slots : GetStandings(p)

\* --------------------------------- two executions in one season
Encs == {"A", "B"}
EncOf == [p \in Slots |-> IF p = "p" THEN "A" ELSE "B"]

\* A is teams 1 v 2 in group 1; B is its return leg, or teams 3 v 4 in group 2
SeasonRow(e, same) ==
  IF e = "A" THEN [group_number |-> 1, home_team_id |-> 1, away_team_id |-> 2]
  ELSE IF same THEN [group_number |-> 1, home_team_id |-> 2, away_team_id |-> 1]
  ELSE [group_number |-> 2, home_team_id |-> 3, away_team_id |-> 4]

SeasonRegistrations(g) ==
  IF g = 1 THEN RegistrationRows(<<1, 2>>) ELSE RegistrationRows(<<3, 4>>)

\* the completed rows of group g, in the order the select returns them
SeasonCompleted(encs, g, same) ==
  LET rowOf(e) ==
        IF encs[e].status = "completed" /\ SeasonRow(e, same).group_number = g
        THEN <<[home_team_id |-> SeasonRow(e, same).home_team_id,
                away_team_id |-> SeasonRow(e, same).away_team_id,
                results |-> encs[e].results]>>
        ELSE <<>>
  IN  rowOf("A") \o rowOf("B")

SeasonIdle ==
  /\ sameGroup = TRUE
  /\ seasonEncounters = [e \in Encs |-> [status |-> "ready", results |-> <<>>]]
  /\ seasonGroups = [g \in GroupNumbers |-> <<>>]
  /\ seasonPc = [p \in Slots |-> "idle"]
  /\ computedFor = [p \in Slots |-> <<>>]
  /\ groupsRead = [p \in Slots |-> [g \in GroupNumbers |-> <<>>]]
  /\ storeFailed = FALSE

SeasonGoto(p, label) == seasonPc' = [seasonPc EXCEPT ![p] = label]

\* executeEncounter: the select of the encounter and the status check
SeasonExecRead(p) ==
  /\ seasonPc[p] = "idle"
  /\ \E error \in BOOLEAN :
       IF error \/ seasonEncounters[EncOf[p]].status # "ready"
       THEN /\ SeasonGoto(p, "done")
            /\ storeFailed' = (storeFailed \/ error)
       ELSE /\ SeasonGoto(p, "execUpdate")
            /\ UNCHANGED storeFailed
  /\ UNCHANGED <<sameGroup, seasonEncounters, seasonGroups, computedFor,
                 groupsRead>>
  /\ UNCHANGED <<schedVars, standVars, encVars>>
  /\ UNCHANGED <<lineupVars, regVars>>

\* executeEncounter: the matches and the update of the row
SeasonExecUpdate(p) ==
  /\ seasonPc[p] = "execUpdate"
  /\ \/ /\ \E matchResults \in MatchResults :
             seasonEncounters' =
               [seasonEncounters EXCEPT
                  ![EncOf[p]] = [status |-> "completed",
                                 results |-> matchResults]]
        /\ SeasonGoto(p, "ugsCompute")
        /\ UNCHANGED storeFailed
     \/ /\ SeasonGoto(p, "done")
        /\ storeFailed' = TRUE
        /\ UNCHANGED seasonEncounters
  /\ UNCHANGED <<sameGroup, seasonGroups, computedFor, groupsRead>>
  /\ UNCHANGED <<schedVars, standVars, encVars>>
  /\ UNCHANGED <<lineupVars, regVars>>

\* updateGroupStandings: its call of getGroupStandings
SeasonCompute(p) ==
  /\ seasonPc[p] = "ugsCompute"
  /\ \E failed \in BOOLEAN :
       /\ computedFor' =
            [computedFor EXCEPT ![p] =
               IF failed THEN <<>>
               ELSE LET g == SeasonRow(EncOf[p], sameGroup).group_number
                    IN  GetGroupStandings(
                          SeasonRegistrations(g),
                          SeasonCompleted(seasonEncounters, g, sameGroup))]
       /\ storeFailed' = (storeFailed \/ failed)
  /\ SeasonGoto(p, "ugsRead")
  /\ UNCHANGED <<sameGroup, seasonEncounters, seasonGroups, groupsRead>>
  /\ UNCHANGED <<schedVars, standVars, encVars>>
  /\ UNCHANGED <<lineupVars, regVars>>

\* updateGroupStandings: the select of the season's groups
SeasonRead(p) ==
  /\ seasonPc[p] = "ugsRead"
  /\ \E seasonError \in BOOLEAN :
       IF seasonError
       THEN /\ SeasonGoto(p, "done")
            /\ storeFailed' = TRUE
            /\ UNCHANGED groupsRead
       ELSE /\ SeasonGoto(p, "ugsWrite")
            /\ groupsRead' = [groupsRead EXCEPT ![p] = seasonGroups]
            /\ UNCHANGED storeFailed
  /\ UNCHANGED <<sameGroup, seasonEncounters, seasonGroups, computedFor>>
  /\ UNCHANGED <<schedVars, standVars, encVars>>
  /\ UNCHANGED <<lineupVars, regVars>>

\* the groups JSON with the group's standings replaced
WithStandings(groupsJson, g, st) == [groupsJson EXCEPT ![g] = st]

\* updateGroupStandings: the update of the season's groups
SeasonWrite(p) ==
  /\ seasonPc[p] = "ugsWrite"
  /\ \E failed \in BOOLEAN :
       IF failed
       THEN /\ storeFailed' = TRUE
            /\ UNCHANGED seasonGroups
       ELSE /\ seasonGroups' =
                 WithStandings(groupsRead[p],
                               SeasonRow(EncOf[p], sameGroup).group_number,
                               computedFor[p])
            /\ UNCHANGED storeFailed
  /\ SeasonGoto(p, "done")
  /\ UNCHANGED <<sameGroup, seasonEncounters, computedFor, groupsRead>>
  /\ UNCHANGED <<schedVars, standVars, encVars>>
  /\ UNCHANGED <<lineupVars, regVars>>

SeasonNext ==
  \/ \E p \in Slots : SeasonExecRead(p)
  \/ \E p \in Slots : SeasonExecUpdate(p)
  \/ \E p \in Slots : SeasonCompute(p)
  \/ \E p \in Slots : SeasonRead(p)
  \/ \E p \in Slots : SeasonWrite(p)

\* ------------------------------------------------- lineup constraints
Submitter == 1                     \* userId of the submitting manager
UsageLimit == 3                    \* count > 3
NoPlayer == 0                      \* an id that names no row
NoSubmission ==
  [mens_singles |-> NoPlayer, womens_singles |-> NoPlayer,
   mens_doubles |-> <<NoPlayer, NoPlayer>>,
   womens_doubles |-> <<NoPlayer, NoPlayer>>,
   mixed_doubles |-> <<NoPlayer, NoPlayer>>]

LineupIdle ==
  /\ playersTable = <<>>
  /\ submission = NoSubmission
  /\ lineupPc = "idle"
  /\ lineupRet = "none"
  /\ storedLineup = NoSubmission

\* const allPlayerIds = [mens_singles, womens_singles, ...mens_doubles, ...]
AllPlayerIds(lineup) ==
  <<lineup.mens_singles, lineup.womens_singles>>
    \o lineup.mens_doubles \o lineup.womens_doubles \o lineup.mixed_doubles

Usage(ids, id) == Cardinality({k \in 1..Len(ids) : ids[k] = id})

\* validatePlayerUsageLimit: no id counted more than three times
ValidatePlayerUsageLimit(lineup) ==
  LET ids == AllPlayerIds(lineup)
  IN  \A k \in 1..Len(ids) : Usage(ids, ids[k]) <= UsageLimit

\* playerMap[id]?.gender over the rows the select returns: the user's own
\* players among the ids of the lineup
GenderOf(players, userId, ids, id) ==
  LET rows == {k \in 1..Len(players) :
                 /\ players[k].user_id = userId
                 /\ players[k].id \in Range(ids)
                 /\ players[k].id = id}
  IN  IF rows = {} THEN "undefined" ELSE players[CHOOSE k \in rows : TRUE].gender

ValidateLineupConstraintsAnyOwner(players, userId, lineup, selectError) ==
  LET ids == AllPlayerIds(lineup)
      g(id) == IF \E k \in 1..Len(players) : players[k].id = id
               THEN players[CHOOSE k \in 1..Len(players) :
                              players[k].id = id].gender
               ELSE "undefined"
  IN  IF \E k \in 1..Len(ids) : Usage(ids, ids[k]) > UsageLimit
      THEN "Player can participate in maximum 3 matches"
      ELSE IF selectError THEN "Failed to validate players"
      ELSE IF g(lineup.mens_singles) # "male"
      THEN "Men's singles must be played by a male player"
      ELSE IF g(lineup.womens_singles) # "female"
      THEN "Women's singles must be played by a female player"
      ELSE IF \E k \in 1..2 : g(lineup.mens_doubles[k]) # "male"
      THEN "Men's doubles must be played by male players"
      ELSE IF \E k \in 1..2 : g(lineup.womens_doubles[k]) # "female"
      THEN "Women's doubles must be played by female players"
      ELSE IF ~(\E k \in 1..2 : g(lineup.mixed_doubles[k]) = "male")
                \/ ~(\E k \in 1..2 : g(lineup.mixed_doubles[k]) = "female")
      THEN "Mixed doubles must have one male and one female player"
      ELSE "valid"

\* validateLineupConstraints
ValidateLineupConstraints(players, userId, lineup, selectError) ==
  LET ids == AllPlayerIds(lineup)
      g(id) == GenderOf(players, userId, ids, id)
  IN  IF \E k \in 1..Len(ids) : Usage(ids, ids[k]) > UsageLimit
      THEN "Player can participate in maximum 3 matches"
      ELSE IF selectError THEN "Failed to validate players"
      ELSE IF g(lineup.mens_singles) # "male"
      THEN "Men's singles must be played by a male player"
      ELSE IF g(lineup.womens_singles) # "female"
      THEN "Women's singles must be played by a female player"
      ELSE IF \E k \in 1..Len(lineup.mens_doubles) :
                g(lineup.mens_doubles[k]) # "male"
      THEN "Men's doubles must be played by male players"
      ELSE IF \E k \in 1..Len(lineup.womens_doubles) :
                g(lineup.womens_doubles[k]) # "female"
      THEN "Women's doubles must be played by female players"
      ELSE IF ~(\E k \in 1..Len(lineup.mixed_doubles) :
                  g(lineup.mixed_doubles[k]) = "male")
                \/ ~(\E k \in 1..Len(lineup.mixed_doubles) :
                       g(lineup.mixed_doubles[k]) = "female")
      THEN "Mixed doubles must have one male and one female player"
      ELSE "valid"

\* submitLineup: validateLineupSubmission's constraint check, then
\* validatePlayerUsageLimit
CheckLineup ==
  /\ lineupPc = "validate"
  /\ \E selectError \in BOOLEAN :
       LET v == ValidateLineupConstraints(playersTable, Submitter, submission,
                                          selectError)
       IN  IF v # "valid"
           THEN /\ lineupRet' = v
                /\ lineupPc' = "done"
           ELSE IF ~ValidatePlayerUsageLimit(submission)
           THEN /\ lineupRet' = "Players used more than 3 times"
                /\ lineupPc' = "done"
           ELSE /\ lineupPc' = "store"
                /\ UNCHANGED lineupRet
  /\ UNCHANGED <<playersTable, submission, storedLineup>>
  /\ UNCHANGED <<schedVars, standVars, encVars>>
  /\ UNCHANGED <<seasonVars, regVars>>

\* submitLineup: the update that stores the lineup
StoreLineup ==
  /\ lineupPc = "store"
  /\ \E updateError \in BOOLEAN :
       IF updateError
       THEN /\ lineupRet' = "update failed"
            /\ UNCHANGED storedLineup
       ELSE /\ lineupRet' = "success"
            /\ storedLineup' = submission
  /\ lineupPc' = "done"
  /\ UNCHANGED <<playersTable, submission>>
  /\ UNCHANGED <<schedVars, standVars, encVars>>
  /\ UNCHANGED <<seasonVars, regVars>>

\* players.filter(p => p.gender === gender), rank order kept
RECURSIVE FilterGender(_, _)
FilterGender(players, gender) ==
  IF players = <<>> THEN <<>>
  ELSE IF Head(players).gender = gender
       THEN <<Head(players)>> \o FilterGender(Tail(players), gender)
       ELSE FilterGender(Tail(players), gender)

\* a variant that fields the best male player in every male slot
AutoLineupBestOnly(players) ==
  LET malePlayers == FilterGender(players, "male")
      femalePlayers == FilterGender(players, "female")
  IN  [mens_singles |-> malePlayers[1].id,
       womens_singles |-> femalePlayers[1].id,
       mens_doubles |-> <<malePlayers[1].id, malePlayers[1].id>>,
       womens_doubles |-> <<femalePlayers[2].id, femalePlayers[1].id>>,
       mixed_doubles |-> <<malePlayers[1].id, femalePlayers[2].id>>]

\* autoGenerateLineup: const autoLineup = {...}
AutoLineup(players) ==
  LET malePlayers == FilterGender(players, "male")
      femalePlayers == FilterGender(players, "female")
  IN  [mens_singles |-> malePlayers[1].id,
       womens_singles |-> femalePlayers[1].id,
       mens_doubles |-> <<malePlayers[2].id, malePlayers[3].id>>,
       womens_doubles |->
         <<femalePlayers[2].id,
           IF Len(femalePlayers) >= 3 THEN femalePlayers[3].id
           ELSE femalePlayers[1].id>>,
       mixed_doubles |->
         <<IF Len(malePlayers) >= 4 THEN malePlayers[4].id
           ELSE malePlayers[1].id,
           IF Len(femalePlayers) >= 2 THEN femalePlayers[2].id
           ELSE femalePlayers[1].id>>]

MinPlayers == 5                    \* players.length < 5
MinMale == 3                       \* malePlayers.length < 3
MinFemale == 2                     \* femalePlayers.length < 2

\* autoGenerateLineup up to its call of submitLineup
AutoBuild ==
  /\ lineupPc = "generate"
  /\ \E error \in BOOLEAN :
       IF error \/ Len(playersTable) < MinPlayers
       THEN /\ lineupRet' = "Insufficient players for auto-generation"
            /\ lineupPc' = "done"
            /\ UNCHANGED submission
       ELSE IF Len(FilterGender(playersTable, "male")) < MinMale
                 \/ Len(FilterGender(playersTable, "female")) < MinFemale
       THEN /\ lineupRet' = "Insufficient players by gender for auto-generation"
            /\ lineupPc' = "done"
            /\ UNCHANGED submission
       ELSE IF ~ValidatePlayerUsageLimit(AutoLineup(playersTable))
       THEN /\ lineupRet' = "Players used more than 3 times"
            /\ lineupPc' = "done"
            /\ UNCHANGED submission
       ELSE /\ submission' = AutoLineup(playersTable)
            /\ lineupPc' = "validate"
            /\ UNCHANGED lineupRet
  /\ UNCHANGED <<playersTable, storedLineup>>
  /\ UNCHANGED <<schedVars, standVars, encVars>>
  /\ UNCHANGED <<seasonVars, regVars>>

AutoNext ==
  \/ AutoBuild
  \/ CheckLineup
  \/ StoreLineup

LineupNext ==
  \/ CheckLineup
  \/ StoreLineup

\* ------------------------------------------------------- registration
\* TIER_REQUIREMENTS[season.tier]
TierCost == [coins |-> 2, shuttlecocks |-> 1, meals |-> 1]

Affords(b, cost) ==
  /\ b.coins >= cost.coins
  /\ b.shuttlecocks >= cost.shuttlecocks
  /\ b.meals >= cost.meals

Charge(b, cost) ==
  [coins |-> b.coins - cost.coins,
   shuttlecocks |-> b.shuttlecocks - cost.shuttlecocks,
   meals |-> b.meals - cost.meals]

Balances ==
  {[coins |-> 4, shuttlecocks |-> 2, meals |-> 2],
   [coins |-> 2, shuttlecocks |-> 1, meals |-> 1],
   [coins |-> 2, shuttlecocks |-> 1, meals |-> 0]}

RegIdle ==
  /\ uniqueIndex = FALSE
  /\ regOpen = TRUE
  /\ inserted = {}
  /\ deducted = {}
  /\ balance = [coins |-> 0, shuttlecocks |-> 0, meals |-> 0]
  /\ regPc = [p \in Slots |-> "idle"]
  /\ regOk = [p \in Slots |-> TRUE]
  /\ regRet = [p \in Slots |-> "none"]
  /\ regFault = FALSE

RegReturn(p, r) ==
  /\ regPc' = [regPc EXCEPT ![p] = "done"]
  /\ regRet' = [regRet EXCEPT ![p] = r]

RegGoto(p, label) ==
  /\ regPc' = [regPc EXCEPT ![p] = label]
  /\ UNCHANGED regRet

\* the registration deadline passes or the season leaves 'registration_open'
CloseRegistration ==
  /\ regOpen = TRUE
  /\ regOpen' = FALSE
  /\ UNCHANGED <<uniqueIndex, inserted, deducted, balance, regPc, regOk,
                 regRet, regFault>>
  /\ UNCHANGED <<schedVars, standVars, encVars>>
  /\ UNCHANGED <<seasonVars, lineupVars>>

\* .single() on the user's registrations of the season: a row only when
\* exactly one matches
ExistingRegistration(rows) == Cardinality(rows) = 1

\* validateRegistrationEligibility
ValidateRegistrationEligibility(open, rows, ok, b, failed) ==
  IF failed THEN "Validation failed"
  ELSE IF ~open THEN "Registration is not open for this season"
  ELSE IF ExistingRegistration(rows)
  THEN "Already registered for this season"
  ELSE IF ~ok THEN "Invalid player selection"
  ELSE IF ~Affords(b, TierCost) THEN "Insufficient resources"
  ELSE "valid"

\* registerForSeason: validation
RegValidate(p) ==
  /\ regPc[p] = "idle"
  /\ \E failed \in BOOLEAN :
       LET v == ValidateRegistrationEligibility(regOpen, inserted, regOk[p],
                                                balance, failed)
       IN  /\ IF v = "valid" THEN RegGoto(p, "season") ELSE RegReturn(p, v)
           /\ regFault' = (regFault \/ failed)
  /\ UNCHANGED <<uniqueIndex, regOpen, inserted, deducted, balance, regOk>>
  /\ UNCHANGED <<schedVars, standVars, encVars>>
  /\ UNCHANGED <<seasonVars, lineupVars>>

\* registerForSeason: the select of the season and the players' details
RegReadSeason(p) ==
  /\ regPc[p] = "season"
  /\ \E outcome \in {"read", "seasonError", "thrown"} :
       /\ IF outcome = "read" THEN RegGoto(p, "insert")
          ELSE RegReturn(p, IF outcome = "seasonError" THEN "Season not found"
                            ELSE "Failed to register for season")
       /\ regFault' = (regFault \/ outcome # "read")
  /\ UNCHANGED <<uniqueIndex, regOpen, inserted, deducted, balance, regOk>>
  /\ UNCHANGED <<schedVars, standVars, encVars>>
  /\ UNCHANGED <<seasonVars, lineupVars>>

\* registerForSeason: the insert of the registration row
RegInsert(p) ==
  /\ regPc[p] = "insert"
  /\ \E failed \in BOOLEAN :
       IF failed
       THEN /\ RegReturn(p, "insert failed")
            /\ regFault' = TRUE
            /\ UNCHANGED inserted
       ELSE IF uniqueIndex /\ inserted # {}
       THEN /\ RegReturn(p, "duplicate key value violates unique constraint")
            /\ UNCHANGED <<inserted, regFault>>
       ELSE /\ RegGoto(p, "deduct")
            /\ inserted' = inserted \cup {p}
            /\ UNCHANGED regFault
  /\ UNCHANGED <<uniqueIndex, regOpen, deducted, balance, regOk>>
  /\ UNCHANGED <<schedVars, standVars, encVars>>
  /\ UNCHANGED <<seasonVars, lineupVars>>

\* registerForSeason: batchResourceTransactions, then return
RegDeduct(p) ==
  /\ regPc[p] = "deduct"
  /\ \E thrown \in BOOLEAN :
       IF thrown
       THEN /\ RegReturn(p, "Failed to register for season")
            /\ regFault' = TRUE
            /\ UNCHANGED <<balance, deducted>>
       ELSE /\ RegReturn(p, "success")
            /\ balance' = Charge(balance, TierCost)
            /\ deducted' = deducted \cup {p}
            /\ UNCHANGED regFault
  /\ UNCHANGED <<uniqueIndex, regOpen, inserted, regOk>>
  /\ UNCHANGED <<schedVars, standVars, encVars>>
  /\ UNCHANGED <<seasonVars, lineupVars>>

RegNext ==
  \/ CloseRegistration
  \/ \E p \in Slots : RegValidate(p)
  \/ \E p \in Slots : RegReadSeason(p)
  \/ \E p \in Slots : RegInsert(p)
  \/ \E p \in Slots : RegDeduct(p)

StandNext ==
  \/ FetchEncounters
  \/ FetchRegistrations
  \/ ProcessEncounter
  \/ SortAndReturn

\* ------------------------------------------------------- specifications
\* the scheduler alone
Init ==
  /\ EncIdle
  /\ SeasonIdle
  /\ LineupIdle
  /\ RegIdle
  /\ SchedInit
  /\ registrations = <<>>
  /\ StandIdle
  /\ ReplayIdle

Next == SchedNext

Spec == Init /\ [][Next]_vars

\* the standings computation alone, over every roster
StandInit ==
  /\ EncIdle
  /\ SeasonIdle
  /\ LineupIdle
  /\ RegIdle
  /\ SchedInit
  /\ registrations \in {RegistrationRows(ids) : ids \in RosterLists}
  /\ StandIdle
  /\ ReplayIdle

StandSpec == StandInit /\ [][StandNext]_vars

\* the standings computation over a reply fixed at the start, called twice
ReplayInit ==
  /\ EncIdle
  /\ SeasonIdle
  /\ LineupIdle
  /\ RegIdle
  /\ SchedInit
  /\ StandIdle
  /\ callNo = 1
  /\ firstResult = <<>>
  /\ firstStatus = "none"
  /\ \/ /\ registrations \in {RegistrationRows(ids) : ids \in RosterLists}
        /\ reply \in SeqsUpTo(ShortRows, MaxEncounters)
     \/ /\ registrations \in {RegistrationRows(<<1, 2>>),
                               RegistrationRows(<<2, 1>>)}
        /\ reply \in {q \in SeqsUpTo(LongRows, MaxFormReply) :
                         Len(q) > MaxEncounters}

ReplaySpec == ReplayInit /\ [][ReplayNext]_vars

\* results texts that JSON.parse accepts but that are not five home/away
\* results: null or '[]', four entries, six entries, a winner of 'draw'
MalformedResults ==
  {<<>>,
   [i \in 1..(NumMatches - 1) |-> [winner |-> "home"]],
   [i \in 1..(NumMatches + 1) |-> [winner |-> "home"]],
   [i \in 1..NumMatches |-> [winner |-> IF i = 1 THEN "draw" ELSE "home"]]}

DirtyRows ==
  [home_team_id : {1}, away_team_id : {2}, results : MalformedResults]
    \cup [home_team_id : {2}, away_team_id : {1}, results : MalformedResults]
    \cup {EncounterRow(1, 2, 3), EncounterRow(2, 1, 2)}

\* the standings computation over a store that holds such rows
DirtyInit ==
  /\ EncIdle
  /\ SeasonIdle
  /\ LineupIdle
  /\ RegIdle
  /\ SchedInit
  /\ StandIdle
  /\ callNo = 1
  /\ firstResult = <<>>
  /\ firstStatus = "none"
  /\ registrations \in {RegistrationRows(ids) : ids \in RosterLists}
  /\ reply \in SeqsUpTo(DirtyRows, MaxEncounters)

DirtySpec == DirtyInit /\ [][ReplayNext]_vars

\* the calls made on one encounter of the group, two of them at a time
EncInit ==
  /\ SchedInit
  /\ registrations = GroupRegistrations
  /\ StandIdle
  /\ ReplayIdle
  /\ EncIdle
  /\ SeasonIdle
  /\ LineupIdle
  /\ RegIdle

EncSpec == EncInit /\ [][EncNext]_vars

\* executeEncounter called once for each of two ready encounters of a season
SeasonInit ==
  /\ SchedInit
  /\ registrations = <<>>
  /\ StandIdle
  /\ ReplayIdle
  /\ EncIdle
  /\ sameGroup \in BOOLEAN
  /\ seasonEncounters = [e \in Encs |-> [status |-> "ready", results |-> <<>>]]
  /\ seasonGroups = [g \in GroupNumbers |-> <<>>]
  /\ seasonPc = [p \in Slots |-> "idle"]
  /\ computedFor = [p \in Slots |-> <<>>]
  /\ groupsRead = [p \in Slots |-> [g \in GroupNumbers |-> <<>>]]
  /\ storeFailed = FALSE
  /\ LineupIdle
  /\ RegIdle

SeasonSpec == SeasonInit /\ [][SeasonNext]_vars

\* the players table of a submitLineup call: players 1 to 4 are the
\* submitter's, two male and two female; player 5 is another manager's
SubmitPlayers ==
  <<[id |-> 1, gender |-> "male", user_id |-> Submitter],
    [id |-> 2, gender |-> "female", user_id |-> Submitter],
    [id |-> 3, gender |-> "male", user_id |-> Submitter],
    [id |-> 4, gender |-> "female", user_id |-> Submitter],
    [id |-> 5, gender |-> "male", user_id |-> Submitter + 1]>>

Pairs(S) == {<<a, b>> : a \in S, b \in S}

Lineups(S) ==
  [mens_singles : S, womens_singles : S, mens_doubles : Pairs(S),
   womens_doubles : Pairs(S), mixed_doubles : Pairs(S)]

\* submitLineup called with any lineup over those five ids
LineupInit ==
  /\ SchedInit
  /\ registrations = <<>>
  /\ StandIdle
  /\ ReplayIdle
  /\ EncIdle
  /\ SeasonIdle
  /\ playersTable = SubmitPlayers
  /\ submission \in Lineups({SubmitPlayers[k].id : k \in 1..Len(SubmitPlayers)})
  /\ lineupPc = "validate"
  /\ lineupRet = "none"
  /\ storedLineup = NoSubmission
  /\ RegIdle

LineupSpec == LineupInit /\ [][LineupNext]_vars

\* the user's players as the select of autoGenerateLineup returns them
Genders == {"male", "female", "other"}

AutoRosters ==
  {[k \in 1..Len(g) |-> [id |-> k, gender |-> g[k], user_id |-> Submitter]] :
     g \in SeqsUpTo(Genders, MaxAutoPlayers)}

\* autoGenerateLineup called for a user with any such roster
AutoInit ==
  /\ SchedInit
  /\ registrations = <<>>
  /\ StandIdle
  /\ ReplayIdle
  /\ EncIdle
  /\ SeasonIdle
  /\ playersTable \in AutoRosters
  /\ submission = NoSubmission
  /\ lineupPc = "generate"
  /\ lineupRet = "none"
  /\ storedLineup = NoSubmission
  /\ RegIdle

AutoSpec == AutoInit /\ [][AutoNext]_vars

\* two registerForSeason calls of one user for one season
RegInit ==
  /\ SchedInit
  /\ registrations = <<>>
  /\ StandIdle
  /\ ReplayIdle
  /\ EncIdle
  /\ SeasonIdle
  /\ LineupIdle
  /\ uniqueIndex \in BOOLEAN
  /\ regOpen = TRUE
  /\ inserted = {}
  /\ deducted = {}
  /\ balance \in Balances
  /\ regPc = [p \in Slots |-> "idle"]
  /\ regOk \in [Slots -> BOOLEAN]
  /\ regRet = [p \in Slots |-> "none"]
  /\ regFault = FALSE

RegSpec == RegInit /\ [][RegNext]_vars

\* ================================================================ claims
N == Len(teamIds)
Called == schedPc # "idle"
\* the fixture loop ran to its end
LoopDone == Called /\ schedResult # "thrown" /\ matchday > Len(raw)
Pos(t) == CHOOSE k \in 1..Len(teamIds) : teamIds[k] = t

RECURSIVE SumSeq(_)
SumSeq(s) == IF s = <<>> THEN 0 ELSE Head(s) + SumSeq(Tail(s))

RECURSIVE Flatten(_)
Flatten(ws) == IF ws = <<>> THEN <<>> ELSE Head(ws).matchdays \o Flatten(Tail(ws))

C3_Original ==
  \A weekCount \in 1..MaxWeekCount :
    Called =>
      /\ Len(weekBuckets) = weekCount
      /\ \A w \in 1..Len(weekBuckets) :
           weekBuckets[w] = ((N * (N - 1)) \div weekCount)
                            + (IF w <= (N * (N - 1)) % weekCount THEN 1 ELSE 0)

\* C3 amended: the scheduler takes no week count; it always produces exactly
\* 4 week buckets, bucket w (1-based) holding M div 4 matchdays plus one iff
\* w <= M mod 4 (4 teams -> [3,3,3,3]; 5 teams -> [5,5,5,5]).
C3_FourBuckets ==
  Called =>
    /\ Len(weekBuckets) = 4
    /\ \A w \in 1..4 :
         weekBuckets[w] = ((N * (N - 1)) \div 4)
                          + (IF w <= (N * (N - 1)) % 4 THEN 1 ELSE 0)
    /\ N = 4 => weekBuckets = <<3, 3, 3, 3>>
    /\ N = 5 => weekBuckets = <<5, 5, 5, 5>>

C3_Witness ==
  /\ Called /\ N = 3 /\ weekBuckets = <<2, 2, 1, 1>>

\* C4: matchdays are numbered 1, 2, ..., M in fixture order; each number is
\* in exactly one week's list, week w's list is as long as bucket w, a
\* fixture's week_number is the week (within 1..number of weeks) whose list
\* holds its matchday, week_number never decreases, and the week search
\* never runs past the last bucket.
C4_MatchdaysIntoWeeks ==
  Called =>
    /\ ~oob
    /\ Flatten(weekSchedule) = [k \in 1..Len(Flatten(weekSchedule)) |-> k]
    /\ \A w \in 1..Len(weekSchedule) : weekSchedule[w].week = w
    /\ schedResult # "thrown" =>
         /\ Len(Flatten(weekSchedule)) = matchday - 1
         /\ Len(fixturesToInsert) = matchday - 1
    /\ \A k \in 1..Len(fixturesToInsert) :
         /\ fixturesToInsert[k].week_number \in 1..Len(weekBuckets)
         /\ \A w \in 1..Len(weekSchedule) :
              (k \in Range(weekSchedule[w].matchdays))
                <=> (w = fixturesToInsert[k].week_number)
    /\ \A k \in 1..(Len(fixturesToInsert) - 1) :
         fixturesToInsert[k].week_number <= fixturesToInsert[k + 1].week_number
    /\ LoopDone =>
         /\ matchday = N * (N - 1) + 1
         /\ \A w \in 1..Len(weekSchedule) :
              Len(weekSchedule[w].matchdays) = weekBuckets[w]

C4_Witness ==
  /\ LoopDone /\ N = 3
  /\ fixturesToInsert[6].week_number = 4
  /\ weekSchedule[2].matchdays = <<3, 4>>

\* C5: for teams i before j in the input order, (home=i, away=j) is emitted
\* immediately before (home=j, away=i), on matchdays 2k-1 and 2k, and the
\* pairs come in lexicographic order of input positions (i, j).
C5_LegsBackToBack ==
  Called =>
    /\ Len(raw) % 2 = 0
    /\ \A k \in 1..(Len(raw) \div 2) :
         LET first == raw[2 * k - 1]
             second == raw[2 * k]
         IN  /\ first.home = second.away
             /\ first.away = second.home
             /\ Pos(first.home) < Pos(first.away)
             /\ k > 1 =>
                  LET prev == raw[2 * k - 3]
                  IN  \/ Pos(prev.home) < Pos(first.home)
                      \/ /\ Pos(prev.home) = Pos(first.home)
                         /\ Pos(prev.away) < Pos(first.away)
    /\ LoopDone =>
         \A k \in 1..(Len(raw) \div 2) :
           /\ fixturesToInsert[2 * k - 1].home_team_id = raw[2 * k - 1].home
           /\ fixturesToInsert[2 * k].home_team_id = raw[2 * k - 1].away
           /\ fixturesToInsert[2 * k].away_team_id = raw[2 * k - 1].home

C5_Witness ==
  /\ LoopDone /\ N = 3 /\ teamIds = <<3, 1, 2>>
  /\ fixturesToInsert[3].home_team_id = 3
  /\ fixturesToInsert[4].home_team_id = 2

\* C6: every fixture is 'scheduled', carries the caller's group number and
\* season id, and its match date is what the caller's date function returned
\* for that fixture's own matchday; the date function is called once per
\* matchday 1..M, in increasing order.
C6_FixtureStamps ==
  Called =>
    /\ \A k \in 1..Len(dateCalls) : dateCalls[k].arg = k
    /\ Len(dateCalls) >= Len(fixturesToInsert)
    /\ \A k \in 1..Len(fixturesToInsert) :
         /\ fixturesToInsert[k].status = "scheduled"
         /\ fixturesToInsert[k].group_number = groupNumber
         /\ fixturesToInsert[k].season_id = seasonId
         /\ fixturesToInsert[k].match_date = dateCalls[k].ret
         /\ fixturesToInsert[k].match_date = ComputeMatchDate(dateKind, k)
    /\ LoopDone => Len(dateCalls) = N * (N - 1)

C6_Witness ==
  /\ schedPc = "done" /\ schedResult = "success" /\ N = 3
  /\ dateKind = "wrapped" /\ groupNumber = 2 /\ seasonId = 2
  /\ dbMatches[5].match_date = 1

AllWeeksEmpty ==
  \A w \in 1..Len(weekSchedule) : weekSchedule[w].matchdays = <<>>

\* C7 as stated: with fewer than 2 teams the fixture list is empty, every
\* week's matchdays list is empty, and the call reports success.
C7_Original ==
  (schedPc = "done" /\ N < 2) =>
    /\ fixturesToInsert = <<>>
    /\ AllWeeksEmpty
    /\ schedResult = "success"

\* C7 amended: with fewer than 2 teams the fixture list is empty, every
\* week's matchdays list is empty, and the call reports success unless the
\* store's insert or update fails (the team count itself is never an error).
C7_FewTeamsNotAnError ==
  (Called /\ N < 2) =>
    /\ fixturesToInsert = <<>>
    /\ raw = <<>>
    /\ Len(weekSchedule) = 4
    /\ AllWeeksEmpty
    /\ schedPc = "done" =>
         schedResult = (IF storeError = "none" THEN "success" ELSE "error")

C7_Witness ==
  /\ schedPc = "done" /\ N = 1 /\ schedResult = "success"
  /\ dbMatches = <<>> /\ Len(dbWeekSchedule) = 4

RosterIds == {registrations[k].user_id : k \in 1..Len(registrations)}
\* where the roster first names the team
RosterIndex(t) ==
  CHOOSE k \in 1..Len(registrations) :
    /\ registrations[k].user_id = t
    /\ \A k2 \in 1..(k - 1) : registrations[k2].user_id # t
WonBy(enc, side) ==
  Cardinality({i \in 1..Len(enc.results) : enc.results[i].winner = side})
Diff(e) == e.individual_matches_won - e.individual_matches_lost

\* what an encounter win adds to a standing entry, and what a loss adds
TookWin(before, after) ==
  /\ after.points = before.points + 3
  /\ after.encounters_won = before.encounters_won + 1
  /\ after.encounters_lost = before.encounters_lost
  /\ after.form = Append(before.form, "W")
TookLoss(before, after) ==
  /\ after.points = before.points
  /\ after.encounters_won = before.encounters_won
  /\ after.encounters_lost = before.encounters_lost + 1
  /\ after.form = Append(before.form, "L")

\* a visit of forEach to an encounter between two roster teams gives the side
\* with strictly more individual wins the win and the other side the loss
C8_EncounterStep ==
  (standPc = "process" /\ processed' = processed + 1) =>
    LET enc == encounter'
        h == enc.home_team_id
        a == enc.away_team_id
    IN  (h \in RosterIds /\ a \in RosterIds) =>
          /\ WonBy(enc, "home") # WonBy(enc, "away")
          /\ WonBy(enc, "home") > WonBy(enc, "away") =>
               /\ TookWin(standings[h], standings'[h])
               /\ TookLoss(standings[a], standings'[a])
          /\ WonBy(enc, "away") > WonBy(enc, "home") =>
               /\ TookWin(standings[a], standings'[a])
               /\ TookLoss(standings[h], standings'[h])

\* two teams, one encounter won 3-2 by home
C8_ExampleReturn ==
  (/\ standPc = "process" /\ standPc' = "done"
   /\ processed = 1 /\ Len(registrations) = 2
   /\ RosterIds = {encounter.home_team_id, encounter.away_team_id}
   /\ WonBy(encounter, "home") = 3) =>
    /\ Len(sortedStandings') = 2
    /\ sortedStandings'[1].team_id = encounter.home_team_id
    /\ sortedStandings'[1].points = 3
    /\ sortedStandings'[1].encounters_won = 1
    /\ sortedStandings'[1].encounters_lost = 0
    /\ sortedStandings'[1].individual_matches_won = 3
    /\ sortedStandings'[1].individual_matches_lost = 2
    /\ sortedStandings'[1].form = <<"W">>
    /\ sortedStandings'[2].team_id = encounter.away_team_id
    /\ sortedStandings'[2].points = 0
    /\ sortedStandings'[2].encounters_won = 0
    /\ sortedStandings'[2].encounters_lost = 1
    /\ sortedStandings'[2].individual_matches_won = 2
    /\ sortedStandings'[2].individual_matches_lost = 3
    /\ sortedStandings'[2].form = <<"L">>

\* C8: every completed encounter between two roster teams gives exactly one
\* side (the one with strictly more individual wins) +3 points, +1 encounter
\* won and a 'W', the other side 0 points, +1 encounter lost and an 'L'; no
\* encounter is a draw.  One encounter won 3-2 by home: home 3 points, 1 won,
\* 3/2, away 0 points, 1 lost, 2/3, home ranked above away.
C8_WinnerTakesThree ==
  [][C8_EncounterStep /\ C8_ExampleReturn]_vars

C8_Witness ==
  /\ standResult = "computed" /\ processed = 1
  /\ Len(registrations) = 2
  /\ registrations[1].user_id = 2 /\ registrations[2].user_id = 1
  /\ encounter.home_team_id = 1 /\ encounter.away_team_id = 2
  /\ WonBy(encounter, "home") = 3
  /\ sortedStandings[1].team_id = 1 /\ sortedStandings[1].points = 3
  /\ sortedStandings[2].team_id = 2 /\ sortedStandings[2].form = <<"L">>

\* C9: the returned standings are ordered by descending points, then by
\* descending (individual won - individual lost); entries equal on both keep
\* the order in which the roster initialised them.
C9_RankingOrder ==
  standResult = "computed" =>
    /\ Len(sortedStandings) = Cardinality(RosterIds)
    /\ \A i, j \in 1..Len(sortedStandings) :
         i < j =>
           LET a == sortedStandings[i]
               b == sortedStandings[j]
           IN  \/ a.points > b.points
               \/ a.points = b.points /\ Diff(a) > Diff(b)
               \/ /\ a.points = b.points
                  /\ Diff(a) = Diff(b)
                  /\ RosterIndex(a.team_id) < RosterIndex(b.team_id)

C9_Witness ==
  /\ standResult = "computed" /\ Len(registrations) = 3
  /\ registrations[1].user_id = 3 /\ registrations[2].user_id = 2
  /\ sortedStandings[1].team_id = 1
  /\ sortedStandings[2].team_id = 3
  /\ sortedStandings[3].team_id = 2
  /\ sortedStandings[1].points = sortedStandings[2].points
  /\ Diff(sortedStandings[1]) > Diff(sortedStandings[2])
  /\ sortedStandings[2].points > sortedStandings[3].points

\* C10: the result has exactly one entry per roster team, whatever teams the
\* encounters mention, and the entry at sorted index k (0-based) has position
\* k+1: positions are 1..N without gaps or duplicates, also among tied teams.
C10_OneEntryPerTeamPositions ==
  standResult = "computed" =>
    /\ Len(sortedStandings) = Cardinality(RosterIds)
    /\ \A t \in RosterIds :
         Cardinality({k \in 1..Len(sortedStandings) :
                        sortedStandings[k].team_id = t}) = 1
    /\ \A k \in 1..Len(sortedStandings) :
         /\ sortedStandings[k].team_id \in RosterIds
         /\ sortedStandings[k].position = k
    /\ {sortedStandings[k].position : k \in 1..Len(sortedStandings)}
         = 1..Cardinality(RosterIds)

C10_Witness ==
  /\ standResult = "computed" /\ Len(registrations) = 2 /\ processed = 2
  /\ encounter.home_team_id \notin RosterIds
  /\ sortedStandings[1].points = sortedStandings[2].points
  /\ Diff(sortedStandings[1]) = Diff(sortedStandings[2])
  /\ sortedStandings[1].matches_played = 1
  /\ sortedStandings[2].position = 2

\* ------------------------------------------------------------ C11 .. C14
\* the rows of a reply that a team played in, in the order of the reply
RECURSIVE RowsOf(_, _)
RowsOf(rows, t) ==
  IF rows = <<>> THEN <<>>
  ELSE IF t \in {Head(rows).home_team_id, Head(rows).away_team_id}
       THEN <<Head(rows)>> \o RowsOf(Tail(rows), t)
       ELSE RowsOf(Tail(rows), t)

MySide(enc, t) == IF enc.home_team_id = t THEN "home" ELSE "away"
OtherSide(enc, t) == IF enc.home_team_id = t THEN "away" ELSE "home"

\* a team's encounter results, oldest first in the order of the reply
Outcomes(rows, t) ==
  [k \in 1..Len(rows) |->
     IF WonBy(rows[k], MySide(rows[k], t)) > WonBy(rows[k], OtherSide(rows[k], t))
     THEN "W" ELSE "L"]

RECURSIVE SumWonBy(_, _, _)
SumWonBy(rows, t, mine) ==
  IF rows = <<>> THEN 0
  ELSE WonBy(Head(rows), IF mine THEN MySide(Head(rows), t)
                         ELSE OtherSide(Head(rows), t))
       + SumWonBy(Tail(rows), t, mine)

Min(a, b) == IF a <= b THEN a ELSE b

ReplyReturned == standPc = "done" /\ standResult = "computed"

\* C11: the returned form of every team has length min(5, encounters the team
\* played) and is the team's last results in the order of the reply
C11_FormIsLastFive ==
  ReplyReturned =>
    \A k \in 1..Len(sortedStandings) :
      LET e == sortedStandings[k]
          hist == Outcomes(RowsOf(reply, e.team_id), e.team_id)
          n == Min(5, Len(hist))
      IN  /\ Len(e.form) = n
          /\ e.form = SubSeq(hist, Len(hist) - n + 1, Len(hist))

\* a team that played six encounters whose first five results differ from
\* its last five
C11_Witness ==
  /\ ReplyReturned
  /\ \E k \in 1..Len(sortedStandings) :
       LET e == sortedStandings[k]
           hist == Outcomes(RowsOf(reply, e.team_id), e.team_id)
       IN  /\ Len(hist) = 6
           /\ Len(e.form) = 5
           /\ e.form # SubSeq(hist, 1, 5)

\* C12: a team's individual_matches_won is the sum over its encounters of the
\* matches its side won, individual_matches_lost the sum of those the other
\* side won, and the two add up to 5 * matches_played
C12_IndividualTotals ==
  ReplyReturned =>
    \A k \in 1..Len(sortedStandings) :
      LET e == sortedStandings[k]
          mine == RowsOf(reply, e.team_id)
      IN  /\ e.matches_played = Len(mine)
          /\ e.individual_matches_won = SumWonBy(mine, e.team_id, TRUE)
          /\ e.individual_matches_lost = SumWonBy(mine, e.team_id, FALSE)
          /\ e.individual_matches_won + e.individual_matches_lost
               = 5 * e.matches_played

\* a team with two encounters, one at home and one away
C12_Witness ==
  /\ ReplyReturned
  /\ \E k \in 1..Len(sortedStandings) :
       LET e == sortedStandings[k]
           mine == RowsOf(reply, e.team_id)
       IN  /\ Len(mine) = 2
           /\ mine[1].home_team_id = e.team_id
           /\ mine[2].away_team_id = e.team_id
           /\ e.individual_matches_won = 5
           /\ e.individual_matches_lost = 5

\* C13: with no completed encounter the computation returns one entry per
\* roster team, every count zero and the form empty
C13_ZeroEncounters ==
  (standPc = "done" /\ standResult = "computed" /\ processed = 0) =>
    /\ {sortedStandings[k].team_id : k \in 1..Len(sortedStandings)} = RosterIds
    /\ Len(sortedStandings) = Cardinality(RosterIds)
    /\ \A k \in 1..Len(sortedStandings) :
         LET e == sortedStandings[k]
         IN  /\ e.points = 0
             /\ e.matches_played = 0
             /\ e.encounters_won = 0
             /\ e.encounters_lost = 0
             /\ e.individual_matches_won = 0
             /\ e.individual_matches_lost = 0
             /\ e.form = <<>>

C13_Witness ==
  /\ standPc = "done"
  /\ standResult = "computed"
  /\ processed = 0
  /\ Len(sortedStandings) = 3

\* C14: a second computation over the same roster and the same reply returns
\* what the first returned, order, positions and form included
C14_SecondCallSame ==
  (callNo = 2 /\ standPc = "done" /\ standResult = "computed"
     /\ firstStatus = "computed") =>
    sortedStandings = firstResult

\* both calls ranked two teams that had played
C14_Witness ==
  /\ callNo = 2
  /\ standPc = "done"
  /\ standResult = "computed"
  /\ firstStatus = "computed"
  /\ Len(reply) = 2
  /\ Len(sortedStandings) >= 2
  /\ sortedStandings[1].points > 0
  /\ sortedStandings = firstResult

\* ------------------------------------------------------------------ C15
Malformed(row) ==
  \/ Len(row.results) # NumMatches
  \/ \E i \in 1..Len(row.results) : row.results[i].winner \notin {"home", "away"}

\* C15: a call that reads a completed encounter whose results are not five
\* home/away results returns the error outcome, not standings
C15_MalformedRowIsAnError ==
  (standPc = "done" /\ \E k \in 1..Len(reply) : Malformed(reply[k])) =>
    standResult = "failed"

\* ------------------------------------------------------------------ C16
\* C16: the scheduler never throws to its caller: a call that has ended has
\* returned success or an error
C16_SchedulerReturnsAnOutcome ==
  schedPc = "done" => schedResult \in {"success", "error"}

\* ------------------------------------------------------------ C17 .. C20
\* the slot whose call takes the step
Steps(p, label) == pc[p] = label /\ pc'[p] # label

Outcome(r) == <<r.results, r.winner_team_id, r.final_score>>

\* C17: a step of getGroupStandings, called directly or by
\* updateGroupStandings, leaves every stored row as it was; the stored
\* standings change only in the update made by updateGroupStandings
C17_GetGroupStandingsIsReadOnly ==
  [][/\ \A p \in Slots :
          (Steps(p, "ugsCompute") \/ Steps(p, "getStandings")) =>
            UNCHANGED <<matchRow, groups, registrations>>
     /\ (groups' # groups) => \E p \in Slots : Steps(p, "ugsWrite")]_vars

\* updateGroupStandings has stored the standings of the completed encounter
\* and a direct call of getGroupStandings has returned since
C17_Witness ==
  /\ matchRow.status = "completed"
  /\ Len(groups) = 2
  /\ groups[1].points = 3
  /\ \E p \in Slots : ret[p] = "computed"

\* C18: an executeEncounter call never records results over those of an
\* encounter that another call has already completed
C18_ResultsRecordedOnce ==
  [][(matchRow.status = "completed" /\ \E p \in Slots : Steps(p, "execUpdate"))
       => Outcome(matchRow') = Outcome(matchRow)]_vars

\* C19: while the encounter is not completed, it is 'ready' once both lineups
\* are stored and 'lineup_pending' only while exactly one is
C19_StatusFollowsLineups ==
  matchRow.status # "completed" =>
    /\ (matchRow.home_lineup # NoLineup /\ matchRow.away_lineup # NoLineup)
         => matchRow.status = "ready"
    /\ matchRow.status = "lineup_pending"
         => (matchRow.home_lineup # NoLineup) # (matchRow.away_lineup # NoLineup)

\* C20: a completed encounter stays completed
C20_CompletedStaysCompleted ==
  [][matchRow.status = "completed" => matchRow'.status = "completed"]_vars

\* ------------------------------------------------------ C21, C22, C24
BothLineups(r) == r.home_lineup # NoLineup /\ r.away_lineup # NoLineup

\* C21: an executeEncounter call whose select fails or finds a status other
\* than 'ready' returns a failure and leaves the encounter row and the stored
\* standings unchanged; an executed encounter holds both teams' lineups
C21_OnlyReadyIsExecuted ==
  [][/\ \A p \in Slots :
          (Steps(p, "execRead") /\ pc'[p] # "execUpdate") =>
            /\ ret'[p] \in {"Encounter not found",
                             "Encounter not ready for execution"}
            /\ UNCHANGED <<matchRow, groups>>
     /\ \A p \in Slots :
          (Steps(p, "execRead") /\ matchRow.status # "ready") =>
            /\ ret'[p] # "success"
            /\ pc'[p] = "idle"
     /\ \A p \in Slots : Steps(p, "execUpdate") => BothLineups(matchRow)
     /\ matchRow'.results # <<>> => BothLineups(matchRow')]_vars

\* a call was turned away while only one lineup was in
C21_Witness ==
  /\ matchRow.status = "lineup_pending"
  /\ ~BothLineups(matchRow)
  /\ \E p \in Slots : ret[p] = "Encounter not ready for execution"

\* C22: when an executeEncounter call returns success the encounter is
\* 'completed' with five results, a final score adding up to five and the
\* side with more individual wins as its winner
C22_SuccessLeavesCompleted ==
  [][\A p \in Slots :
       (Steps(p, "ugsWrite") /\ ret'[p] = "success") =>
         /\ matchRow'.status = "completed"
         /\ Len(matchRow'.results) = NumMatches
         /\ Len(matchRow'.final_score) = 2
         /\ matchRow'.final_score[1] + matchRow'.final_score[2] = NumMatches
         /\ matchRow'.winner_team_id =
              IF matchRow'.final_score[1] > matchRow'.final_score[2]
              THEN matchRow'.home_team_id ELSE matchRow'.away_team_id]_vars

\* C24: a user who manages neither team gets a failure and changes nothing;
\* a successful submitLineup writes its own team's lineup and the status and
\* no other column
C24_LineupWritesOwnField ==
  [][\A p \in Slots :
       /\ (arg[p].kind \in {"submit", "auto"} /\ pc'[p] # pc[p]
             /\ arg[p].user \notin {matchRow.home_team_id,
                                    matchRow.away_team_id}) =>
            /\ UNCHANGED matchRow
            /\ ret'[p] # "success"
       /\ (Steps(p, "update") /\ ret'[p] = "success") =>
            /\ arg[p].user = matchRow.home_team_id =>
                  /\ matchRow'.home_lineup = arg[p].user
                  /\ matchRow'.away_lineup = matchRow.away_lineup
            /\ arg[p].user = matchRow.away_team_id =>
                  /\ matchRow'.away_lineup = arg[p].user
                  /\ matchRow'.home_lineup = matchRow.home_lineup
            /\ Outcome(matchRow') = Outcome(matchRow)
            /\ matchRow'.home_team_id = matchRow.home_team_id
            /\ matchRow'.away_team_id = matchRow.away_team_id]_vars

\* both teams have submitted and the third user was refused
C24_Witness ==
  /\ matchRow.home_lineup = HomeTeam
  /\ matchRow.away_lineup = AwayTeam
  /\ \E p \in Slots :
       ret[p] = "Not authorized to submit lineup for this encounter"

\* ------------------------------------------------------------------ C23
\* C23: when both executions have finished and no store operation failed,
\* the standings stored for each group are those computed from all of the
\* group's completed encounters
C23_NoStandingsUpdateLost ==
  ((\A p \in Slots : seasonPc[p] = "done") /\ ~storeFailed) =>
    \A g \in GroupNumbers :
      (\E e \in Encs : SeasonRow(e, sameGroup).group_number = g) =>
        seasonGroups[g] =
          GetGroupStandings(SeasonRegistrations(g),
                            SeasonCompleted(seasonEncounters, g, sameGroup))

\* ------------------------------------------------------------ C25, C26
\* the ids of the user's players of a gender
Own(players, userId, gender) ==
  {players[k].id : k \in {i \in 1..Len(players) :
                            /\ players[i].user_id = userId
                            /\ players[i].gender = gender}}

GenderIn(players, id) ==
  {players[k].gender : k \in {i \in 1..Len(players) : players[i].id = id}}

\* the lineup constraints as the claim words them
SatisfiesConstraints(players, userId, lineup) ==
  /\ \A id \in Range(AllPlayerIds(lineup)) : Usage(AllPlayerIds(lineup), id) <= 3
  /\ Len(AllPlayerIds(lineup)) = 8
  /\ {lineup.mens_singles, lineup.mens_doubles[1], lineup.mens_doubles[2]}
       \subseteq Own(players, userId, "male")
  /\ {lineup.womens_singles, lineup.womens_doubles[1],
      lineup.womens_doubles[2]} \subseteq Own(players, userId, "female")
  /\ \/ /\ GenderIn(players, lineup.mixed_doubles[1]) = {"male"}
        /\ GenderIn(players, lineup.mixed_doubles[2]) = {"female"}
     \/ /\ GenderIn(players, lineup.mixed_doubles[1]) = {"female"}
        /\ GenderIn(players, lineup.mixed_doubles[2]) = {"male"}

\* C25: a lineup stored by a successful submitLineup satisfies the lineup
\* constraints; a lineup that violates one is refused and nothing is stored
C25_StoredLineupIsValid ==
  /\ lineupRet = "success" =>
       /\ storedLineup = submission
       /\ SatisfiesConstraints(playersTable, Submitter, storedLineup)
  /\ (lineupPc = "done"
        /\ ~SatisfiesConstraints(playersTable, Submitter, submission)) =>
       /\ lineupRet \notin {"none", "success"}
       /\ storedLineup = NoSubmission

\* a stored lineup that fields player 1 in three of its slots
C25_Witness ==
  /\ lineupRet = "success"
  /\ playersTable = SubmitPlayers
  /\ Usage(AllPlayerIds(storedLineup), 1) = 3

\* C26: auto-generation submits nothing and returns an error for a roster
\* under five players, three male or two female; for any other roster the
\* lineup it builds passes the usage limit and the gender rules
C26_AutoLineupIsValid ==
  LET short == \/ Len(playersTable) < 5
               \/ Len(FilterGender(playersTable, "male")) < 3
               \/ Len(FilterGender(playersTable, "female")) < 2
  IN  lineupPc # "generate" =>
        IF short
        THEN /\ lineupPc = "done"
             /\ lineupRet \in
                  {"Insufficient players for auto-generation",
                   "Insufficient players by gender for auto-generation"}
             /\ submission = NoSubmission
             /\ storedLineup = NoSubmission
        ELSE /\ submission # NoSubmission =>
                  SatisfiesConstraints(playersTable, Submitter, submission)
             /\ lineupPc = "done" =>
                  lineupRet \in {"success", "update failed",
                                 "Failed to validate players",
                                 "Insufficient players for auto-generation"}

\* a roster of exactly three male and two female players got its lineup
\* stored, the best male and the best female each fielded twice
C26_Witness ==
  /\ lineupRet = "success"
  /\ Len(playersTable) = 5
  /\ Len(FilterGender(playersTable, "male")) = 3
  /\ storedLineup = AutoLineup(playersTable)
  /\ storedLineup.mixed_doubles[1] = storedLineup.mens_singles

\* ------------------------------------------------------------ C27, C28
\* C27: a registerForSeason call that returns a failure has added no
\* registration row and taken no resources; one that returns success has
\* done both
C27_RegistrationAllOrNothing ==
  \A p \in Slots :
    regPc[p] = "done" =>
      IF regRet[p] = "success"
      THEN p \in inserted /\ p \in deducted
      ELSE p \notin inserted /\ p \notin deducted

\* the user's resources before any call took its cost
BalanceAtStart ==
  [coins |-> balance.coins + Cardinality(deducted) * TierCost.coins,
   shuttlecocks |->
     balance.shuttlecocks + Cardinality(deducted) * TierCost.shuttlecocks,
   meals |-> balance.meals + Cardinality(deducted) * TierCost.meals]

\* C28: of two calls of one user for one season, with the season open, both
\* requests valid, the resources sufficient and no operation failing, at
\* most one registers and is charged and the other is told that the user is
\* already registered
C28_OneRegistrationPerSeason ==
  ((\A p \in Slots : regPc[p] = "done" /\ regOk[p])
     /\ ~regFault /\ regOpen
     /\ Affords(BalanceAtStart, TierCost)) =>
    /\ Cardinality(inserted) <= 1
    /\ Cardinality(deducted) <= 1
    /\ \A p \in Slots :
         regRet[p] \in {"success", "Already registered for this season"}

====
